---- MODULE Spec2Model ----
(***************************************************************************)
(* Model of src/src/index.ts: a moving-average crossover trading bot.      *)
(*                                                                         *)
(* Numbers.  Prices are floats in the source; here they are integers       *)
(* (ticks of the quote currency), and every comparison the source makes    *)
(* on quotients is made on the cross-multiplied integers, so no rounding   *)
(* is introduced.  The two window lengths are scaled down (50 -> 2,        *)
(* 200 -> 3) so that every content of the price window can be enumerated;  *)
(* the code treats them only as lengths.                                   *)
(***************************************************************************)
EXTENDS Integers, Sequences, FiniteSets, TLC

\* ---------------------------------------------------------------- constants
SHORT_MA_PERIOD == 2
LONG_MA_PERIOD == 3
\* MIN_CHANGE_PCT = 0.002 = MIN_CHANGE_NUM / MIN_CHANGE_DEN
MIN_CHANGE_NUM == 2
MIN_CHANGE_DEN == 1000
\* TP_PCT = 0.005 = TP_NUM / PCT_DEN, SL_PCT = -0.003 = SL_NUM / PCT_DEN
TP_NUM == 5
SL_NUM == -3
PCT_DEN == 1000

\* ------------------------------------------------------------------- bounds
\* closes recorded in a run whose history is kept (see recorded)
MaxRecorded == 6
\* strategy ticks that can be in progress at the same time
MaxTicks == 1
\* keep-alive timers that can pile up on one channel
MaxTimers == 2
\* length of the series handed to calculateSMA when it is called on its own
MaxSeries == 4

\* the closing / last-traded prices the exchange reports
Prices == {1000, 1010}
\* `undefined`: what prices[prices.length - 1] yields on an empty array
Undefined == -1
Channels == {"public", "private"}

RECURSIVE SeqsOfLen(_)
SeqsOfLen(n) ==
  IF n = 0 THEN {<<>>}
  ELSE {Append(s, p) : s \in SeqsOfLen(n - 1), p \in Prices}

\* every response the candle endpoint can give to limit=LONG_MA_PERIOD
CandleResponses == UNION {SeqsOfLen(n) : n \in 0..LONG_MA_PERIOD}

VARIABLES
  mainPc,           \* where autoTrade() is: "load", "leverage", "run"
  prices,           \* let prices: number[]
  currentPrice,     \* let currentPrice
  currentPosition,  \* let currentPosition: "long" | "short" | "null"
  ticks,            \* the strategy-tick invocations in progress, by slot
  sessions,         \* per channel, the WebSocket objects not yet closed
  reconnects,       \* per channel, pending setTimeout(connectWS, 1000)
  oldTimers,        \* per channel, keep-alive intervals of closed sockets
  subTimers,        \* pending setTimeout(privateWs.send(subMsg), 1000)
  recorded,         \* history: every close recorded so far, in order,
                    \* kept only in the runs that start with it switched on
  seen,             \* history: how the load ended (load), whether
                    \* currentPrice was ever set to a non-zero number
                    \* (priced), what the last keep-alive did (ping), who
                    \* wrote currentPosition last (writer)
  ended,            \* history: the tick invocation that returned in the
                    \* step just taken, if one did
  handled,          \* history: the position update handled in the step
                    \* just taken, if one was; in the runs that keep
                    \* recorded, also the channel of the message dropped in
                    \* that step, if one was
  journal,          \* history of the strategy, kept only in the runs that
                    \* start with it switched on: whether every tick so
                    \* far passed both guards with shortMA > longMA (gt) /
                    \* shortMA < longMA (lt) while no gateway call failed
                    \* and no position update came in, and how many open
                    \* requests were issued (long, short); px says
                    \* whether the ticks of the run note their price0
                    \* and fed
  sma               \* a call of calculateSMA made on its own: the
                    \* arguments and, once it has returned, the result

vars == <<mainPc, prices, currentPrice, currentPosition, ticks, sessions,
          reconnects, oldTimers, subTimers, recorded, seen, ended, handled,
          journal, sma>>

connVars == <<sessions, reconnects, oldTimers, subTimers>>
dataVars == <<prices, currentPrice, recorded>>

\* ------------------------------------------------------------ pure helpers
Last(s) == s[Len(s)]

RECURSIVE Sum(_)
Sum(s) == IF s = <<>> THEN 0 ELSE s[1] + Sum(Tail(s))

\* slice(0, n): the oldest n entries instead of the newest
SliceFirst(s, n) ==
  IF Len(s) <= n THEN s ELSE SubSeq(s, 1, n)

\* Array.prototype.slice(-n)
SliceLast(s, n) ==
  IF Len(s) <= n THEN s ELSE SubSeq(s, Len(s) - n + 1, Len(s))

\* a full window that drops the new close instead of the oldest
PushCloseDropNewest(s, p) ==
  IF Len(s) + 1 > LONG_MA_PERIOD THEN s ELSE Append(s, p)

\* prices.push(p); if (prices.length > LONG_MA_PERIOD) prices.shift()
PushClose(s, p) ==
  LET t == Append(s, p)
  IN  IF Len(t) > LONG_MA_PERIOD THEN Tail(t) ELSE t

\* a strategy-tick invocation: where it is (pc), the branch it took (side),
\* the requests it has issued (reqs), and what it saw when it decided
\* (pos0: currentPosition, rel: shortMA against longMA), and for a tick that
\* trades in a run whose journal has px set, price0: the currentPrice its
\* guards read, and fed: the holdSide of the last position update handled
\* while it was awaiting
IdleTick ==
  [pc |-> "idle", side |-> "none", reqs |-> <<>>, pos0 |-> "null",
   rel |-> "eq", price0 |-> 0, fed |-> "none"]

\* no tick invocation returned in this step
Quiet == [res |-> "none", tick |-> IdleTick]

\* no position update was handled in this step
NoUpdate == [holdSide |-> "none", over |-> "none", dropped |-> "none"]

\* no call of calculateSMA on its own
NoCall == [ps |-> <<>>, period |-> 0, done |-> FALSE, out |-> 0]

\* the journal switched off
NoJournal ==
  [on |-> FALSE, px |-> FALSE, gt |-> FALSE, lt |-> FALSE, long |-> 0,
   short |-> 0]

\* the journal of a run in which nothing has happened yet
NewJournal ==
  [on |-> TRUE, px |-> FALSE, gt |-> TRUE, lt |-> TRUE, long |-> 0,
   short |-> 0]

\* a gateway call failed or a position update was handled
Spoiled(j) ==
  IF j.on THEN [j EXCEPT !.gt = FALSE, !.lt = FALSE, !.long = 0, !.short = 0]
  ELSE j

\* a tick fired: passes = both guards passed, rel = shortMA against longMA
Noted(j, passes, rel) ==
  LET k == [j EXCEPT !.gt = @ /\ passes /\ rel = "gt",
                     !.lt = @ /\ passes /\ rel = "lt"]
  IN  IF j.on THEN (IF k.gt \/ k.lt THEN k ELSE Spoiled(j)) ELSE j

\* request op was issued
Counted(j, op) ==
  IF j.on /\ (j.gt \/ j.lt)
  THEN [j EXCEPT !.long = IF op = "open_long" THEN @ + 1 ELSE @,
                 !.short = IF op = "open_short" THEN @ + 1 ELSE @]
  ELSE j

Record(h, closes) ==
  IF h.on THEN [h EXCEPT !.closes = @ \o closes] ELSE h

\* -------------------------------------------------------------------- Init
Init ==
  /\ mainPc = "load"
  /\ prices = <<>>
  /\ currentPrice = 0
  /\ currentPosition = "null"
  /\ ticks = [t \in 1..MaxTicks |-> IdleTick]
  /\ sessions = [c \in Channels |-> <<>>]
  /\ reconnects = [c \in Channels |-> 0]
  /\ oldTimers = [c \in Channels |-> 0]
  /\ subTimers = 0
  /\ recorded = [on |-> FALSE, closes |-> <<>>]
  /\ seen = [load |-> "none", priced |-> FALSE, ping |-> "none",
             writer |-> "none"]
  /\ ended = Quiet
  /\ handled = NoUpdate
  /\ journal = NoJournal
  /\ sma = NoCall

\* ----------------------------------------------------------------- startup
\* loadInitialCandles(): the GET resolves with a list of closes, or rejects
LoadInitialCandles ==
  /\ mainPc = "load"
  /\ \/ \E data \in CandleResponses :
          /\ prices' = data
          /\ currentPrice' = IF data = <<>> THEN Undefined ELSE Last(data)
          /\ recorded' = Record(recorded, data)
          /\ seen' = [seen EXCEPT !.load = "ok", !.priced = data # <<>>]
     \/ /\ UNCHANGED <<prices, currentPrice, recorded>>
        /\ seen' = [seen EXCEPT !.load = "failed"]
  /\ mainPc' = "leverage"
  /\ ended' = Quiet
  /\ handled' = NoUpdate
  /\ UNCHANGED <<currentPosition, ticks, connVars, journal, sma>>

\* connectWS(): const ws = new WebSocket(url), handlers attached, returned.
\* first = the object autoTrade binds to publicWs / privateWs.
NewSession(isFirst) ==
  [st |-> "connecting", first |-> isFirst, ka |-> 0, got |-> {}]

\* setLeverage() settles (its failure is swallowed); autoTrade then creates
\* both sockets and installs the strategy interval.
SetLeverageDone ==
  /\ mainPc = "leverage"
  /\ mainPc' = "run"
  /\ sessions' = [c \in Channels |-> <<NewSession(TRUE)>>]
  /\ ended' = Quiet
  /\ handled' = NoUpdate
  /\ UNCHANGED <<dataVars, currentPosition, ticks, reconnects, oldTimers,
                 subTimers, seen, journal, sma>>

\* -------------------------------------------------------------- connectWS
RemoveAt(s, i) == [j \in 1..(Len(s) - 1) |-> IF j < i THEN s[j] ELSE s[j + 1]]

\* keep-alive intervals alive on channel c, whatever socket they ping
TimersOn(c) ==
  oldTimers[c] + Sum([j \in DOMAIN sessions[c] |-> sessions[c][j].ka])

\* publicWs.send(x) / privateWs.send(x): the closures send on the socket the
\* first connectWS call returned.  ws delivers on an OPEN socket and drops
\* the data on a closing or closed one.
SendOnFirst(ss, payload) ==
  [j \in DOMAIN ss |->
     IF ss[j].first /\ ss[j].st = "open"
     THEN [ss[j] EXCEPT !.got = @ \cup {payload}]
     ELSE ss[j]]

\* the onOpen callback autoTrade passes for channel c
OnOpen(c, ss) ==
  IF c = "public" THEN SendOnFirst(ss, "subscribe")
  ELSE SendOnFirst(ss, "login")

\* ws.on('open'): onOpen(), then setInterval(() => ws.send('ping'), 30000)
WsOpen(c, i) ==
  /\ mainPc = "run"
  /\ i \in DOMAIN sessions[c]
  /\ sessions[c][i].st = "connecting"
  /\ TimersOn(c) < MaxTimers
  /\ LET opened == [sessions[c] EXCEPT ![i].st = "open"]
         told == OnOpen(c, opened)
     IN  sessions' = [sessions EXCEPT ![c] = [told EXCEPT ![i].ka = @ + 1]]
  /\ subTimers' = IF c = "private" THEN subTimers + 1 ELSE subTimers
  /\ ended' = Quiet
  /\ handled' = NoUpdate
  /\ UNCHANGED <<mainPc, dataVars, currentPosition, ticks, reconnects,
                 oldTimers, seen, journal, sma>>

\* setTimeout(() => privateWs.send(subMsg), 1000) fires
SubTimerFire ==
  /\ subTimers > 0
  /\ subTimers' = subTimers - 1
  /\ sessions' = [sessions EXCEPT
                    !["private"] = SendOnFirst(@, "subscribe")]
  /\ ended' = Quiet
  /\ handled' = NoUpdate
  /\ UNCHANGED <<mainPc, dataVars, currentPosition, ticks, reconnects,
                 oldTimers, seen, journal, sma>>

\* ws.on('error'): logged only.  ws has left the CONNECTING / OPEN state by
\* the time it emits 'error' and emits 'close' for the same socket later.
WsError(c, i) ==
  /\ mainPc = "run"
  /\ i \in DOMAIN sessions[c]
  /\ sessions[c][i].st \in {"connecting", "open"}
  /\ sessions' = [sessions EXCEPT ![c][i].st = "closing"]
  /\ ended' = Quiet
  /\ handled' = NoUpdate
  /\ UNCHANGED <<mainPc, dataVars, currentPosition, ticks, reconnects,
                 oldTimers, subTimers, seen, journal, sma>>

\* a close handler that only logs
ScheduleNone(n) == n

\* a reconnect scheduled by the error handler as well as the close handler
ScheduleTwice(n) == n + 2

\* the close handler's effect on the pending reconnect timers of a channel
ScheduleReconnect(n) == n + 1

\* ws.on('close'): setTimeout(() => connectWS(same arguments), 1000).
\* The socket is gone; the intervals that ping it are not cleared.
WsClose(c, i) ==
  /\ mainPc = "run"
  /\ i \in DOMAIN sessions[c]
  /\ sessions[c][i].st \in {"open", "closing"}
  /\ sessions' = [sessions EXCEPT ![c] = RemoveAt(@, i)]
  /\ oldTimers' = [oldTimers EXCEPT ![c] = @ + sessions[c][i].ka]
  /\ reconnects' = [reconnects EXCEPT ![c] = ScheduleReconnect(@)]
  /\ ended' = Quiet
  /\ handled' = NoUpdate
  /\ UNCHANGED <<mainPc, dataVars, currentPosition, ticks, subTimers, seen,
                 journal, sma>>

\* the reconnect timeout fires: connectWS(url, isPrivate, onMessage, onOpen).
\* Timers of equal delay fire in the order they were set, so the subscribe
\* timeout of the socket that closed has fired before this one.
ReconnectFire(c) ==
  /\ reconnects[c] > 0
  /\ c = "private" => subTimers = 0
  /\ reconnects' = [reconnects EXCEPT ![c] = @ - 1]
  /\ sessions' = [sessions EXCEPT ![c] = Append(@, NewSession(FALSE))]
  /\ ended' = Quiet
  /\ handled' = NoUpdate
  /\ UNCHANGED <<mainPc, dataVars, currentPosition, ticks, oldTimers,
                 subTimers, seen, journal, sma>>

\* a keep-alive interval fires: ws.send('ping') on the socket it was made
\* for; i = 0 stands for an interval of a socket that has closed.
KeepAliveFire(c, i) ==
  /\ \/ i = 0 /\ oldTimers[c] > 0
     \/ i \in DOMAIN sessions[c] /\ sessions[c][i].ka > 0
  /\ seen' = [seen EXCEPT !.ping =
                IF i # 0 /\ sessions[c][i].st = "open"
                THEN "sent" ELSE "dropped"]
  /\ ended' = Quiet
  /\ handled' = NoUpdate
  /\ UNCHANGED <<mainPc, dataVars, currentPosition, ticks, connVars, journal,
                 sma>>

\* ---------------------------------------------------------- message feeds
\* what a socket can receive: the keep-alive answer, text that is not JSON,
\* the channel messages the handlers look at, and a message that names a
\* channel of the socket but carries no data array (msg.data[0] throws).
\* last = 0 stands for a ticker without a usable `last` field; side "null"
\* for an absent holdSide.
Messages ==
  {[kind |-> "pong"], [kind |-> "malformed"], [kind |-> "login"],
   [kind |-> "nodata"]}
  \cup {[kind |-> "ticker", last |-> p] : p \in Prices \cup {0}}
  \cup {[kind |-> "candle", close |-> p] : p \in Prices}
  \cup {[kind |-> "positions", holdSide |-> h] :
          h \in {"long", "short", "null"}}

\* the exchange sends on a channel only what the socket asked for
Expected(c, s, m) ==
  /\ s.st = "open"
  /\ CASE m.kind \in {"pong", "malformed"} -> TRUE
       [] m.kind \in {"ticker", "candle"} ->
            c = "public" /\ "subscribe" \in s.got
       [] m.kind = "nodata" ->
            IF c = "private" THEN {"login", "subscribe"} \subseteq s.got
            ELSE "subscribe" \in s.got
       [] m.kind = "login" -> c = "private" /\ "login" \in s.got
       [] m.kind = "positions" ->
            c = "private" /\ {"login", "subscribe"} \subseteq s.got

\* currentPosition = posData?.holdSide || null
\* ... || currentPosition: an absent holdSide keeps the old value
HoldSideOrOld(old, h) == IF h = "null" THEN old ELSE h

HoldSide(old, h) == h

\* JSON.parse(data) or onMessage(msg) throws
Throws(m) == m.kind \in {"malformed", "nodata"}

\* a message handler without the try/catch: the exception ends the socket
Uncaught(m, st) == IF Throws(m) THEN "closing" ELSE st

\* try { ... } catch (error) { console.error(...) }: the handler returns
\* normally whatever the message, the socket stays as it is
Caught(m, st) == st

\* the tick invocations in progress, told of a position update
Fed(tks, j, h) ==
  [t \in DOMAIN tks |->
     IF j.px /\ tks[t].pc # "idle" THEN [tks[t] EXCEPT !.fed = h]
     ELSE tks[t]]

\* ws.on('message'): drop 'pong', JSON.parse (a failure is caught and
\* logged), else the channel's onMessage callback.
WsMessage(c, i, m) ==
  /\ mainPc = "run"
  /\ i \in DOMAIN sessions[c]
  /\ Expected(c, sessions[c][i], m)
  /\ m.kind = "candle" /\ recorded.on => Len(recorded.closes) < MaxRecorded
  /\ CASE m.kind = "ticker" ->
            /\ currentPrice' = m.last
            /\ seen' = [seen EXCEPT !.priced = @ \/ m.last # 0]
            /\ UNCHANGED <<prices, recorded, currentPosition>>
       [] m.kind = "candle" ->
            /\ prices' = PushClose(prices, m.close)
            /\ recorded' = Record(recorded, <<m.close>>)
            /\ UNCHANGED <<currentPrice, currentPosition, seen>>
       [] m.kind = "positions" ->
            /\ currentPosition' = HoldSide(currentPosition, m.holdSide)
            /\ seen' = [seen EXCEPT !.writer = "feed"]
            /\ UNCHANGED dataVars
       [] OTHER -> UNCHANGED <<dataVars, seen, currentPosition>>
  /\ handled' = IF m.kind = "positions"
                THEN [holdSide |-> m.holdSide,
                      over |-> IF seen.writer = "tick"
                               THEN currentPosition ELSE "none",
                      dropped |-> "none"]
                ELSE IF recorded.on /\ Throws(m)
                THEN [NoUpdate EXCEPT !.dropped = c]
                ELSE NoUpdate
  /\ sessions' = [sessions EXCEPT ![c][i].st = Caught(m, @)]
  /\ journal' = IF m.kind = "positions" THEN Spoiled(journal) ELSE journal
  /\ ticks' = IF m.kind = "positions" THEN Fed(ticks, journal, m.holdSide)
              ELSE ticks
  /\ ended' = Quiet
  /\ UNCHANGED <<mainPc, reconnects, oldTimers, subTimers, sma>>

\* ------------------------------------------------------------ strategy tick
Abs(x) == IF x < 0 THEN -x ELSE x

\* calculateSMA, in units of 1/SmaScale so that the mean stays an integer
SmaScale == SHORT_MA_PERIOD * LONG_MA_PERIOD

calculateSMA(ps, period) ==
  IF Len(ps) < period THEN 0
  ELSE (Sum(SliceLast(ps, period)) * SmaScale) \div period

\* if (prices.length < LONG_MA_PERIOD || currentPrice === 0) return;
GuardSkips(ps, cur) == Len(ps) < LONG_MA_PERIOD \/ cur = 0

\* the change guard left out
ChangeIgnored(ps, cur) == TRUE

\* Math.abs((cur - prev) / prev) >= MIN_CHANGE_PCT with
\* prev = prices[prices.length - 2]; NaN (cur undefined) compares false
ChangePasses(ps, cur) ==
  LET prev == ps[Len(ps) - 1]
  IN  /\ cur # Undefined
      /\ Abs(cur - prev) * MIN_CHANGE_DEN >= MIN_CHANGE_NUM * prev

\* which branch of the decision (lines 284 / 291) is taken
Branch(ps, pos) ==
  LET shortMA == calculateSMA(ps, SHORT_MA_PERIOD)
      longMA == calculateSMA(ps, LONG_MA_PERIOD)
  IN  IF shortMA > longMA /\ pos # "long" THEN "long"
      ELSE IF shortMA < longMA /\ pos # "short" THEN "short"
      ELSE "none"

Relation(ps) ==
  LET shortMA == calculateSMA(ps, SHORT_MA_PERIOD)
      longMA == calculateSMA(ps, LONG_MA_PERIOD)
  IN  IF shortMA > longMA THEN "gt" ELSE IF shortMA < longMA THEN "lt" ELSE "eq"

OpenOp(side) == IF side = "long" THEN "open_long" ELSE "open_short"
CloseOp(side) == IF side = "long" THEN "close_short" ELSE "close_long"
TpslOp(side) == IF side = "long" THEN "tpsl_long" ELSE "tpsl_short"

\* setTP_SL: entryPrice * (1 + (holdSide === 'long' ? TP_PCT : -TP_PCT)),
\* in units of 1/PCT_DEN; NaN when entryPrice is undefined
tpPrice(entryPrice, holdSide) ==
  IF entryPrice = Undefined THEN Undefined
  ELSE entryPrice * (PCT_DEN + (IF holdSide = "long" THEN TP_NUM ELSE -TP_NUM))

\* setTP_SL: entryPrice * (1 + (holdSide === 'long' ? SL_PCT : -SL_PCT))
slPrice(entryPrice, holdSide) ==
  IF entryPrice = Undefined THEN Undefined
  ELSE entryPrice * (PCT_DEN + (IF holdSide = "long" THEN SL_NUM ELSE -SL_NUM))

\* the trigger orders in the body setTP_SL posts: one plan with
\* triggerPrice = tpPrice; slPrice is computed and not put into the body
TpslBody(entryPrice, holdSide) ==
  {[trigger |-> "tp", holdSide |-> holdSide,
    price |-> tpPrice(entryPrice, holdSide)]}

\* what a request carries besides its operation
Body(op, entry) ==
  CASE op = "tpsl_long" -> TpslBody(entry, "long")
    [] op = "tpsl_short" -> TpslBody(entry, "short")
    [] OTHER -> {}

\* axios.post(...) issued by placeOrder / setTP_SL; the caller then awaits it
Issue(tk, op, entry) ==
  [tk EXCEPT !.reqs = Append(@, [op |-> op, entry |-> entry,
                                 body |-> Body(op, entry),
                                 st |-> "inflight"])]

\* the awaited request of a tick settles
Settle(tk, ok) ==
  [tk EXCEPT !.reqs[Len(tk.reqs)].st = IF ok THEN "ok" ELSE "failed"]

\* the first request of a tick that trades: close the opposite position if
\* one is held, else open
FirstRequestNoAwait(tk, side, pos) ==
  IF pos = (IF side = "long" THEN "short" ELSE "long")
  THEN [Issue(Issue(tk, CloseOp(side), 0), OpenOp(side), 0)
          EXCEPT !.pc = "open", !.side = side]
  ELSE [Issue(tk, OpenOp(side), 0) EXCEPT !.pc = "open", !.side = side]

FirstRequest(tk, side, pos) ==
  IF pos = (IF side = "long" THEN "short" ELSE "long")
  THEN [Issue(tk, CloseOp(side), 0) EXCEPT !.pc = "close", !.side = side]
  ELSE [Issue(tk, OpenOp(side), 0) EXCEPT !.pc = "open", !.side = side]

\* a placeOrder whose catch block logs and returns
placeOrderSwallows(ok) == FALSE

\* placeOrder: catch (error) { console.error(...); throw error; }
placeOrderThrows(ok) == ~ok

\* a new invocation takes the lowest free slot
FreeSlot(t) ==
  /\ ticks[t].pc = "idle"
  /\ \A u \in DOMAIN ticks : u < t => ticks[u].pc # "idle"

\* the invocation in slot t goes on as tk
Goes(t, tk) ==
  /\ ticks' = [ticks EXCEPT ![t] = tk]
  /\ ended' = Quiet
  /\ handled' = NoUpdate

\* the invocation in slot t returns (res says how), leaving tk behind
Returns(t, tk, res) ==
  /\ ticks' = [ticks EXCEPT ![t] = IdleTick]
  /\ ended' = [res |-> res, tick |-> tk]
  /\ handled' = NoUpdate

\* the interval fires: the callback runs up to its first await, or returns
TickStart(t) ==
  /\ mainPc = "run"
  /\ t \in DOMAIN ticks
  /\ FreeSlot(t)
  /\ LET tk == [IdleTick EXCEPT !.pos0 = currentPosition]
         tr == [tk EXCEPT !.rel = Relation(prices)]
         side == Branch(prices, currentPosition)
     IN  IF GuardSkips(prices, currentPrice)
         THEN Returns(t, tk, "skip_guard")
         ELSE IF ~ChangePasses(prices, currentPrice)
         THEN Returns(t, tr, "skip_change")
         ELSE IF side = "none" THEN Returns(t, tr, "noaction")
         ELSE Goes(t, FirstRequest(
                        [tr EXCEPT !.price0 =
                                     IF journal.px THEN currentPrice ELSE 0],
                        side, currentPosition))
  /\ LET passes == /\ ~GuardSkips(prices, currentPrice)
                   /\ ChangePasses(prices, currentPrice)
         side == Branch(prices, currentPosition)
         noted == Noted(journal, passes, Relation(prices))
     IN  journal' = IF passes /\ side # "none" /\ currentPosition = "null"
                    THEN Counted(noted, OpenOp(side)) ELSE noted
  /\ UNCHANGED <<mainPc, dataVars, currentPosition, connVars, seen, sma>>

\* await placeOrder(SYMBOL, 'close_*', QUANTITY) settles; a failure is
\* rethrown by placeOrder and caught by the tick's catch block
CloseSettles(t, ok) ==
  /\ t \in DOMAIN ticks
  /\ ticks[t].pc = "close"
  /\ LET tk == Settle(ticks[t], ok)
     IN  IF ~placeOrderThrows(ok)
         THEN Goes(t, [Issue(tk, OpenOp(tk.side), 0) EXCEPT !.pc = "open"])
         ELSE Returns(t, tk, "failed")
  /\ journal' = IF ok THEN Counted(journal, OpenOp(ticks[t].side))
                ELSE Spoiled(journal)
  /\ UNCHANGED <<mainPc, dataVars, currentPosition, connVars, seen, sma>>

\* await placeOrder(SYMBOL, 'open_*', QUANTITY) settles; on success
\* setTP_SL(SYMBOL, side, currentPrice) is called with the price of now
OpenSettles(t, ok) ==
  /\ t \in DOMAIN ticks
  /\ ticks[t].pc = "open"
  /\ LET tk == Settle(ticks[t], ok)
     IN  IF ~placeOrderThrows(ok)
         THEN Goes(t, [Issue(tk, TpslOp(tk.side), currentPrice)
                         EXCEPT !.pc = "tpsl"])
         ELSE Returns(t, tk, "failed")
  /\ journal' = IF ok THEN journal ELSE Spoiled(journal)
  /\ UNCHANGED <<mainPc, dataVars, currentPosition, connVars, seen, sma>>

\* a tick that ends without writing the position
ProvisionalNone(pos, side) == pos

\* the provisional write: currentPosition = 'long' / 'short'
Provisional(pos, side) == side

\* await setTP_SL(...) settles: setTP_SL catches its own failure, so the
\* tick goes on either way and writes the provisional position
TpslSettles(t, ok) ==
  /\ t \in DOMAIN ticks
  /\ ticks[t].pc = "tpsl"
  /\ Returns(t, Settle(ticks[t], ok), "done")
  /\ currentPosition' = Provisional(currentPosition, ticks[t].side)
  /\ seen' = [seen EXCEPT !.writer = "tick"]
  /\ journal' = IF ok THEN journal ELSE Spoiled(journal)
  /\ UNCHANGED <<mainPc, dataVars, connVars, sma>>

Next ==
  \/ LoadInitialCandles
  \/ SetLeverageDone
  \/ \E c \in Channels : \E i \in DOMAIN sessions[c] : WsOpen(c, i)
  \/ SubTimerFire
  \/ \E c \in Channels : \E i \in DOMAIN sessions[c], m \in Messages :
       WsMessage(c, i, m)
  \/ \E t \in DOMAIN ticks : TickStart(t)
  \/ \E t \in DOMAIN ticks, ok \in BOOLEAN : CloseSettles(t, ok)
  \/ \E t \in DOMAIN ticks, ok \in BOOLEAN : OpenSettles(t, ok)
  \/ \E t \in DOMAIN ticks, ok \in BOOLEAN : TpslSettles(t, ok)

Spec == Init /\ [][Next]_vars

NextConn ==
  \/ LoadInitialCandles
  \/ SetLeverageDone
  \/ \E c \in Channels : \E i \in DOMAIN sessions[c] : WsOpen(c, i)
  \/ \E c \in Channels : \E i \in DOMAIN sessions[c] : WsError(c, i)
  \/ \E c \in Channels : \E i \in DOMAIN sessions[c] : WsClose(c, i)
  \/ \E c \in Channels : ReconnectFire(c)
  \/ SubTimerFire
  \/ \E c \in Channels : \E i \in {0} \cup DOMAIN sessions[c] :
       KeepAliveFire(c, i)

ConnSpec == Init /\ [][NextConn]_vars

\* What the event loop and ws guarantee: a timeout that is due fires, and a
\* socket that has emitted 'error' emits 'close'.
ClosesAfterError(c) ==
  \E i \in DOMAIN sessions[c] :
     sessions[c][i].st = "closing" /\ WsClose(c, i)

FairConnSpec ==
  /\ Init
  /\ [][NextConn]_vars
  /\ \A c \in Channels : WF_vars(ReconnectFire(c))
  /\ \A c \in Channels : WF_vars(ClosesAfterError(c))
  /\ WF_vars(SubTimerFire)


\* BufSpec keeps the history of recorded closes; its steps are the ones that
\* touch the price window
BufInit ==
  /\ mainPc = "load"
  /\ prices = <<>>
  /\ currentPrice = 0
  /\ currentPosition = "null"
  /\ ticks = [t \in 1..MaxTicks |-> IdleTick]
  /\ sessions = [c \in Channels |-> <<>>]
  /\ reconnects = [c \in Channels |-> 0]
  /\ oldTimers = [c \in Channels |-> 0]
  /\ subTimers = 0
  /\ recorded = [on |-> TRUE, closes |-> <<>>]
  /\ seen = [load |-> "none", priced |-> FALSE, ping |-> "none",
             writer |-> "none"]
  /\ ended = Quiet
  /\ handled = NoUpdate
  /\ journal = NoJournal
  /\ sma = NoCall

NextBuf ==
  \/ LoadInitialCandles
  \/ SetLeverageDone
  \/ \E i \in DOMAIN sessions["public"] : WsOpen("public", i)
  \/ \E i \in DOMAIN sessions["public"], m \in Messages :
       WsMessage("public", i, m)

BufSpec == BufInit /\ [][NextBuf]_vars

\* OverlapSpec: the whole program with room for one more tick invocation in
\* progress than the others have, and the journal kept
OverlapInit ==
  /\ mainPc = "load"
  /\ prices = <<>>
  /\ currentPrice = 0
  /\ currentPosition = "null"
  /\ ticks = [t \in 1..(MaxTicks + 1) |-> IdleTick]
  /\ sessions = [c \in Channels |-> <<>>]
  /\ reconnects = [c \in Channels |-> 0]
  /\ oldTimers = [c \in Channels |-> 0]
  /\ subTimers = 0
  /\ recorded = [on |-> FALSE, closes |-> <<>>]
  /\ seen = [load |-> "none", priced |-> FALSE, ping |-> "none",
             writer |-> "none"]
  /\ ended = Quiet
  /\ handled = NoUpdate
  /\ journal = NewJournal
  /\ sma = NoCall

OverlapSpec == OverlapInit /\ [][Next]_vars

\* FeedSpec: both feeds and their handlers, with the history kept
NextFeed ==
  \/ LoadInitialCandles
  \/ SetLeverageDone
  \/ \E c \in Channels : \E i \in DOMAIN sessions[c] : WsOpen(c, i)
  \/ SubTimerFire
  \/ \E c \in Channels : \E i \in DOMAIN sessions[c], m \in Messages :
       WsMessage(c, i, m)

FeedSpec == BufInit /\ [][NextFeed]_vars

\* EntrySpec: the whole program, its ticks noting the price they decide on
EntryInit ==
  /\ mainPc = "load"
  /\ prices = <<>>
  /\ currentPrice = 0
  /\ currentPosition = "null"
  /\ ticks = [t \in 1..MaxTicks |-> IdleTick]
  /\ sessions = [c \in Channels |-> <<>>]
  /\ reconnects = [c \in Channels |-> 0]
  /\ oldTimers = [c \in Channels |-> 0]
  /\ subTimers = 0
  /\ recorded = [on |-> FALSE, closes |-> <<>>]
  /\ seen = [load |-> "none", priced |-> FALSE, ping |-> "none",
             writer |-> "none"]
  /\ ended = Quiet
  /\ handled = NoUpdate
  /\ journal = [NoJournal EXCEPT !.px = TRUE]
  /\ sma = NoCall

EntrySpec == EntryInit /\ [][Next]_vars

\* SmaSpec: calculateSMA called on its own, on every series of up to
\* MaxSeries numbers and every period up to LONG_MA_PERIOD
RECURSIVE SeqsOver(_, _)
SeqsOver(S, n) ==
  IF n = 0 THEN {<<>>}
  ELSE {Append(s, p) : s \in SeqsOver(S, n - 1), p \in S}

SmaInputs ==
  [ps : UNION {SeqsOver(Prices \cup {0}, n) : n \in 0..MaxSeries},
   period : 1..LONG_MA_PERIOD, done : {FALSE}, out : {0}]

SmaInit ==
  /\ mainPc = "load"
  /\ prices = <<>>
  /\ currentPrice = 0
  /\ currentPosition = "null"
  /\ ticks = [t \in 1..MaxTicks |-> IdleTick]
  /\ sessions = [c \in Channels |-> <<>>]
  /\ reconnects = [c \in Channels |-> 0]
  /\ oldTimers = [c \in Channels |-> 0]
  /\ subTimers = 0
  /\ recorded = [on |-> FALSE, closes |-> <<>>]
  /\ seen = [load |-> "none", priced |-> FALSE, ping |-> "none",
             writer |-> "none"]
  /\ ended = Quiet
  /\ handled = NoUpdate
  /\ journal = NoJournal
  /\ sma \in SmaInputs

\* calculateSMA(ps, period) returns
CallSMA ==
  /\ sma.period > 0
  /\ ~sma.done
  /\ sma' = [sma EXCEPT !.done = TRUE,
                        !.out = calculateSMA(sma.ps, sma.period)]
  /\ UNCHANGED <<mainPc, dataVars, currentPosition, ticks, connVars, seen,
                 ended, handled, journal>>

NextSma == CallSMA

SmaSpec == SmaInit /\ [][NextSma]_vars

\* ========================================================= the claims
Ops(tk) == [k \in DOMAIN tk.reqs |-> tk.reqs[k].op]
AllOk(tk) == \A k \in DOMAIN tk.reqs : tk.reqs[k].st = "ok"
IsPrefix(a, b) == Len(a) <= Len(b) /\ a = SubSeq(b, 1, Len(a))
Busy == {t \in DOMAIN ticks : ticks[t].pc # "idle"}

\* the requests a tick of the given branch makes when nothing is held
OpenSequence(side) == <<OpenOp(side), TpslOp(side)>>
\* ... and when the opposite position is held
ReverseSequence(side) == <<CloseOp(side)>> \o OpenSequence(side)

\* --- the claims' own reading of the strategy's inputs, on the raw state
\* the sum of the last n closes
LastSum(n) == Sum(SubSeq(prices, Len(prices) - n + 1, Len(prices)))

\* PriceSeries is full and LatestPrice is a non-zero number
Ready == Len(prices) >= LONG_MA_PERIOD /\ currentPrice \in Prices

\* |priceChangePct| >= MIN_CHANGE_PCT, against the second-to-last close
BigChange ==
  LET prev == prices[Len(prices) - 1]
      d == IF currentPrice >= prev THEN currentPrice - prev
           ELSE prev - currentPrice
  IN  d * MIN_CHANGE_DEN >= MIN_CHANGE_NUM * prev

\* shortMA against longMA: mean of the last SHORT_MA_PERIOD closes against
\* the mean of the last LONG_MA_PERIOD
Cross ==
  LET a == LastSum(SHORT_MA_PERIOD) * LONG_MA_PERIOD
      b == LastSum(LONG_MA_PERIOD) * SHORT_MA_PERIOD
  IN  IF a > b THEN "gt" ELSE IF a < b THEN "lt" ELSE "eq"

\* a tick invocation starts trading in this step / returns at once
Starts(t) == ticks[t].pc = "idle" /\ ticks'[t].pc # "idle"
SkipsNow == ended'.res \in {"skip_guard", "skip_change", "noaction"}

C1_Case(tk, rel) == tk.rel = rel /\ tk.pos0 = "null"

C1_Inv ==
  \A pair \in {<<"gt", "long">>, <<"lt", "short">>} :
    LET rel == pair[1]
        side == pair[2]
    IN  /\ \A t \in Busy :
              C1_Case(ticks[t], rel) =>
                /\ Ops(ticks[t]) # <<>>
                /\ IsPrefix(Ops(ticks[t]), OpenSequence(side))
        /\ (ended.res = "done" /\ AllOk(ended.tick)
              /\ C1_Case(ended.tick, rel)) =>
             /\ Ops(ended.tick) = OpenSequence(side)
             /\ currentPosition = side

C1_Step ==
  \A pair \in {<<"gt", "long">>, <<"lt", "short">>} :
    (Ready /\ BigChange /\ Cross = pair[1] /\ currentPosition = "null") =>
      /\ ~SkipsNow
      /\ \A t \in DOMAIN ticks :
           Starts(t) => /\ C1_Case(ticks'[t], pair[1])
                        /\ Ops(ticks'[t]) = <<OpenOp(pair[2])>>

\* C1: a tick that passes both guards with shortMA > longMA and nothing
\* held issues no close request, one open-long request and one TP/SL
\* request, and currentPosition is "long" when it ends (and the same with
\* shortMA < longMA, open-short and "short").  A tick fired in such a state
\* does not return at once: it issues the open request.  While it runs, its
\* requests so far are a non-empty prefix of <<open, TP/SL>>.  Right after
\* it has returned with every call succeeded, its requests are exactly
\* <<open, TP/SL>> and currentPosition is the opened side.
C1_OpenFromNone == []C1_Inv /\ [][C1_Step]_vars

C1_Witness ==
  /\ ended.res = "done"
  /\ AllOk(ended.tick)
  /\ ended.tick.rel = "gt"
  /\ ended.tick.pos0 = "null"
  /\ currentPosition = "long"

Opposite(side) == IF side = "long" THEN "short" ELSE "long"

C2_Case(tk, rel, side) == tk.rel = rel /\ tk.pos0 = Opposite(side)

\* every request of the tick but the newest has completed successfully
OneAtATime(tk) ==
  \A k \in DOMAIN tk.reqs : k < Len(tk.reqs) => tk.reqs[k].st = "ok"

C2_Inv ==
  /\ \A t \in Busy :
       /\ OneAtATime(ticks[t])
       /\ Cardinality({k \in DOMAIN ticks[t].reqs :
                         ticks[t].reqs[k].st = "inflight"}) = 1
  /\ \A pair \in {<<"gt", "long">>, <<"lt", "short">>} :
       LET rel == pair[1]
           side == pair[2]
       IN  /\ \A t \in Busy :
                 C2_Case(ticks[t], rel, side) =>
                   /\ Ops(ticks[t]) # <<>>
                   /\ IsPrefix(Ops(ticks[t]), ReverseSequence(side))
           /\ (ended.res = "done" /\ AllOk(ended.tick)
                 /\ C2_Case(ended.tick, rel, side)) =>
                Ops(ended.tick) = ReverseSequence(side)

C2_Step ==
  \A pair \in {<<"gt", "long">>, <<"lt", "short">>} :
    (Ready /\ BigChange /\ Cross = pair[1]
       /\ currentPosition = Opposite(pair[2])) =>
      /\ ~SkipsNow
      /\ \A t \in DOMAIN ticks :
           Starts(t) => /\ C2_Case(ticks'[t], pair[1], pair[2])
                        /\ Ops(ticks'[t]) = <<CloseOp(pair[2])>>

\* C2: a tick that passes both guards with shortMA > longMA while a short
\* position is held issues close-short, then open-long, then TP/SL, in that
\* order, each only after the one before it has completed, so never two
\* requests of one tick in flight at once (and close-long, open-short, TP/SL
\* with shortMA < longMA while long is held).
C2_CloseOpenTpslInOrder == []C2_Inv /\ [][C2_Step]_vars

C2_Witness ==
  /\ ended.res = "done"
  /\ AllOk(ended.tick)
  /\ ended.tick.rel = "gt"
  /\ ended.tick.pos0 = "short"
  /\ Ops(ended.tick) = <<"close_short", "open_long", "tpsl_long">>

C3_Step ==
  (Ready /\ ~BigChange) =>
    /\ \A t \in DOMAIN ticks : ~Starts(t)
    /\ ended'.res \notin {"skip_guard", "noaction"}
    /\ ended'.res = "skip_change" =>
         /\ ended'.tick.reqs = <<>>
         /\ currentPosition' = currentPosition

C3_Inv ==
  ended.res = "skip_change" =>
    /\ ended.tick.reqs = <<>>
    /\ currentPosition = ended.tick.pos0

\* C3: a tick in which |priceChangePct| < MIN_CHANGE_PCT makes no gateway
\* call and leaves currentPosition as it was, whatever shortMA, longMA and
\* currentPosition are: in a state with a small change no tick invocation
\* starts issuing requests, and one that fires returns at the change guard
\* with no request and the position it found.
C3_SmallChangeNoCall == []C3_Inv /\ [][C3_Step]_vars

C3_Witness ==
  /\ ended.res = "skip_change"
  /\ ended.tick.rel = "gt"
  /\ ended.tick.pos0 = "null"
  /\ Ready /\ ~BigChange /\ Cross = "gt"
  /\ currentPosition = "null"

\* a request is issued in this step
Issues == \E t \in DOMAIN ticks : Len(ticks'[t].reqs) > Len(ticks[t].reqs)

\* After a failed initial load the window holds exactly the closes of the
\* candle messages received, up to LONG_MA_PERIOD of them.
C4_Step ==
  Issues =>
    /\ Len(prices) >= LONG_MA_PERIOD
    /\ currentPrice # 0
    /\ seen.load = "failed" => seen.priced

\* C4: no order or TP/SL request is issued while PriceSeries holds fewer
\* than LONG_MA_PERIOD entries or LatestPrice is 0; after a failed initial
\* load none is issued before LONG_MA_PERIOD candle messages have come in
\* and a ticker message has set a non-zero LatestPrice.
C4_NoRequestUnlessReady == [][C4_Step]_vars

\* C5: right after the position-update handler has processed a message,
\* currentPosition is the holdSide the message reports ("null" when it is
\* absent), whatever a tick wrote before.
C5_FeedWins ==
  handled.holdSide # "none" => currentPosition = handled.holdSide

\* an update without holdSide handled when the value in place was the
\* provisional "long" of a tick
C5_Witness ==
  /\ handled.holdSide = "null"
  /\ handled.over = "long"
  /\ currentPosition = "null"

\* C6: on each channel at most one keep-alive interval is alive, and the
\* interval of a socket that has closed is gone by the time the socket that
\* replaces it has its own.
C6_OneKeepAlive ==
  \A c \in Channels :
    /\ TimersOn(c) <= 1
    /\ (\E i \in DOMAIN sessions[c] : sessions[c][i].ka > 0) =>
         oldTimers[c] = 0

Active(c) ==
  Cardinality({i \in DOMAIN sessions[c] :
                 sessions[c][i].st \in {"connecting", "open"}})

\* C7: on each channel at most one socket is connecting or open, and from
\* the start on there is always exactly one of: a socket not yet closed, or
\* a reconnect timeout pending - so each close is answered by one new
\* socket, never none and never two.
C7_OneSession ==
  \A c \in Channels :
    /\ Active(c) <= 1
    /\ mainPc = "run" => Len(sessions[c]) + reconnects[c] = 1

\* a socket made by a reconnect is up, the closed one's successor
C7_Witness ==
  \E c \in Channels :
    /\ Len(sessions[c]) = 1
    /\ ~sessions[c][1].first
    /\ sessions[c][1].st = "open"
    /\ reconnects[c] = 0

\* C8: every socket that is open has been sent its onOpen payloads: the
\* subscribe request on the public channel, the login request on the
\* private one - also a socket made by a reconnect.
C8_OpenedIsSubscribed ==
  \A c \in Channels : \A i \in DOMAIN sessions[c] :
    sessions[c][i].st = "open" =>
      IF c = "public" THEN "subscribe" \in sessions[c][i].got
      ELSE "login" \in sessions[c][i].got

Down(c) ==
  \/ reconnects[c] > 0
  \/ \E i \in DOMAIN sessions[c] : sessions[c][i].st = "closing"

Connecting(c) ==
  \E i \in DOMAIN sessions[c] : sessions[c][i].st = "connecting"

\* C9: whenever a socket of a channel has closed or has had a transport
\* error, a new connection attempt on that channel follows - every time,
\* however many attempts have failed before.
C9_AlwaysReconnects == \A c \in Channels : Down(c) ~> Connecting(c)

\* a connection attempt made by a reconnect, after an earlier reconnected
\* socket had already been up and closed again
C9_Witness ==
  \E c \in Channels :
    /\ Connecting(c)
    /\ oldTimers[c] >= 2
    /\ \A i \in DOMAIN sessions[c] : ~sessions[c][i].first

\* C10: the window never holds more than LONG_MA_PERIOD closes and is the
\* most recent ones of all that were recorded, in order.
C10_WindowIsSuffix ==
  /\ Len(prices) <= LONG_MA_PERIOD
  /\ recorded.on => prices = SliceLast(recorded.closes, LONG_MA_PERIOD)

\* the window has been full and has evicted its oldest close
C10_Witness ==
  /\ Len(recorded.closes) = MaxRecorded
  /\ Len(prices) = LONG_MA_PERIOD
  /\ prices[1] # recorded.closes[1]

\* the sum of the entries of s from index k on
RECURSIVE SumFrom(_, _)
SumFrom(s, k) == IF k > Len(s) THEN 0 ELSE s[k] + SumFrom(s, k + 1)

\* C11: calculateSMA(ps, p) returns exactly 0 when ps holds fewer than p
\* entries, and otherwise the arithmetic mean of the last p entries (the
\* result is in units of 1/SmaScale, so result * p = SmaScale * their sum);
\* for a series that is constant v with at least p entries it returns v.
C11_MeanOfLast ==
  sma.done =>
    IF Len(sma.ps) < sma.period THEN sma.out = 0
    ELSE /\ sma.out * sma.period
              = SmaScale * SumFrom(sma.ps, Len(sma.ps) - sma.period + 1)
         /\ \A v \in Prices \cup {0} :
              (\A k \in DOMAIN sma.ps : sma.ps[k] = v) =>
                sma.out = v * SmaScale

\* a series longer than the period whose oldest entries differ from its
\* newest ones has been averaged
C11_Witness ==
  /\ sma.done
  /\ sma.period = SHORT_MA_PERIOD
  /\ sma.ps = <<1010, 1010, 1000, 1000>>
  /\ sma.out = 1000 * SmaScale

OrderOps == {"open_long", "open_short", "close_long", "close_short"}

C12_Inv ==
  /\ \A t \in Busy : \A k \in DOMAIN ticks[t].reqs :
       ticks[t].reqs[k].op \in OrderOps => ticks[t].reqs[k].st # "failed"
  /\ \A k \in DOMAIN ended.tick.reqs :
       (ended.tick.reqs[k].op \in OrderOps
          /\ ended.tick.reqs[k].st = "failed") =>
         /\ k = Len(ended.tick.reqs)
         /\ ended.res = "failed"
  /\ ended.res = "failed" =>
       /\ Last(ended.tick.reqs).st = "failed"
       /\ mainPc = "run"
       /\ ENABLED (\E t \in DOMAIN ticks : TickStart(t))

C12_Step ==
  ended'.res = "failed" =>
    /\ ~Issues
    /\ currentPosition' = currentPosition
    /\ seen'.writer = seen.writer

\* C12: when a close or open order request of a tick fails, the tick ends
\* there: the failed request is the last one it issued, the step in which
\* it ends issues nothing and does not write currentPosition (the
\* provisional write is skipped), and the interval callback can run again.
C12_OrderFailureCaught == []C12_Inv /\ [][C12_Step]_vars

\* the open order failed after the close had succeeded; the position is
\* still the one the tick found
C12_Witness ==
  /\ ended.res = "failed"
  /\ Ops(ended.tick) = <<"close_short", "open_long">>
  /\ ended.tick.pos0 = "short"
  /\ currentPosition = "short"

C13_Step ==
  Busy # {} =>
    /\ \A t \in DOMAIN ticks : ~Starts(t)
    /\ ~SkipsNow

\* C13: strategy evaluations never overlap: while a tick invocation is
\* awaiting a gateway call, no other invocation evaluates the strategy -
\* none starts issuing requests and none runs through the guards.
C13_NoOverlap == [][C13_Step]_vars

\* C15: in a run in which no position update is handled, no gateway call
\* fails, and every tick that fires passes both guards with shortMA > longMA,
\* at most one open-long request is issued in total, however long the
\* gateway calls take against the tick period; the same with
\* shortMA < longMA and open-short.
C15_AtMostOneOpen ==
  journal.on =>
    /\ journal.gt => journal.long <= 1
    /\ journal.lt => journal.short <= 1

C14_Step ==
  handled'.dropped # "none" =>
    /\ UNCHANGED <<prices, currentPrice, currentPosition, recorded, ticks>>
    /\ UNCHANGED <<sessions, reconnects>>

C14_Inv ==
  \A c \in Channels :
    handled.dropped = c =>
      \E i \in DOMAIN sessions[c] :
        /\ sessions[c][i].st = "open"
        /\ \E m \in Messages :
             /\ ~Throws(m)
             /\ m.kind # "pong"
             /\ ENABLED WsMessage(c, i, m)

\* C14: a message that cannot be decoded, or whose handling throws, is
\* dropped: the step that handles it changes neither the price window, the
\* latest price, the position nor any socket, schedules no reconnect, and
\* afterwards the socket is open and a well-formed message on it is still
\* handled.
C14_UndecodableDropped == []C14_Inv /\ [][C14_Step]_vars

\* a positions message without data dropped on the private socket after a
\* real update, which is still in place
C14_Witness ==
  /\ handled.dropped = "private"
  /\ currentPosition = "long"
  /\ \E i \in DOMAIN sessions["private"] :
       /\ sessions["private"][i].st = "open"
       /\ {"login", "subscribe"} \subseteq sessions["private"][i].got

\* C16: every gateway call that fails within a tick, a failed TP/SL
\* placement included, makes the tick take its failure path: a tick that
\* has ended with a failed request has ended through the catch block, not
\* through the path that writes the position.
C16_FaultsReachTick ==
  (\E k \in DOMAIN ended.tick.reqs : ended.tick.reqs[k].st = "failed") =>
    ended.res = "failed"

\* the two triggers a TP/SL placement for side at entry is to submit
BothTriggers(entry, side) ==
  LET sign == IF side = "long" THEN 1 ELSE -1
  IN  {[trigger |-> "tp", holdSide |-> side,
        price |-> entry * PCT_DEN + sign * entry * TP_NUM],
       [trigger |-> "sl", holdSide |-> side,
        price |-> entry * PCT_DEN + sign * entry * SL_NUM]}

SubmitsBoth(tk) ==
  \A k \in DOMAIN tk.reqs : \A side \in {"long", "short"} :
    (tk.reqs[k].op = TpslOp(side) /\ tk.reqs[k].entry # Undefined) =>
      BothTriggers(tk.reqs[k].entry, side) \subseteq tk.reqs[k].body

\* C17: every TP/SL placement submits a take-profit trigger at
\* entry * (1 + sign * TP_PCT) and a stop-loss trigger at
\* entry * (1 + sign * SL_PCT), sign = +1 for long and -1 for short (prices
\* in units of 1/PCT_DEN); a tick that completed its open sequence has sent
\* a stop-loss trigger for the side it opened.
C17_BothTriggersSent ==
  /\ \A t \in Busy : SubmitsBoth(ticks[t])
  /\ SubmitsBoth(ended.tick)
  /\ ended.res = "done" =>
       \E k \in DOMAIN ended.tick.reqs : \E x \in ended.tick.reqs[k].body :
         x.trigger = "sl" /\ x.holdSide = ended.tick.side

\* the login was sent before the subscribe request on every private socket
C18_Inv ==
  \A i \in DOMAIN sessions["private"] :
    "subscribe" \in sessions["private"][i].got =>
      "login" \in sessions["private"][i].got

\* the subscribe request goes out only when the delay timer fires, and then
\* on a private socket that is open and was sent the login
C18_Step ==
  /\ (\E i \in DOMAIN sessions["private"] :
        /\ i \in DOMAIN sessions'["private"]
        /\ "subscribe" \in sessions'["private"][i].got
                              \ sessions["private"][i].got) =>
       subTimers' < subTimers
  /\ subTimers' < subTimers =>
       \E i \in DOMAIN sessions["private"] :
         /\ sessions["private"][i].st = "open"
         /\ "login" \in sessions["private"][i].got
         /\ "subscribe" \in sessions'["private"][i].got

\* C18: on the private channel the login request is sent before the
\* positions subscribe request, the subscribe request is sent only when the
\* delay after the login has passed, and it is sent on a socket that is
\* still open - never on one that closed during the delay.
C18_LoginThenSubscribe == []C18_Inv /\ [][C18_Step]_vars

EntryIsGuardPrice(tk) ==
  \A k \in DOMAIN tk.reqs :
    tk.reqs[k].op \in {"tpsl_long", "tpsl_short"} =>
      /\ tk.reqs[k].entry = tk.price0
      /\ tk.reqs[k].entry # 0

\* C19: the entry price of a tick's TP/SL request is the currentPrice that
\* the tick's guard and price-change computation read, and it is never 0,
\* whatever ticker messages are handled while the tick awaits its order
\* requests.
C19_EntryIsGuardPrice ==
  journal.px =>
    /\ \A t \in Busy : EntryIsGuardPrice(ticks[t])
    /\ EntryIsGuardPrice(ended.tick)

\* C20: a position update handled while a tick is awaiting its gateway
\* calls is not overwritten by the tick: right after the tick has ended,
\* currentPosition is the holdSide of the last such update.
C20_FeedNotOverwritten ==
  (ended.res \in {"done", "failed"} /\ ended.tick.fed # "none") =>
    currentPosition = ended.tick.fed

====
